---- MODULE Spec2Model ----
(***************************************************************************)
(* Timestamp normalisation and frame-accurate gap closing of               *)
(* WhisperXSRTGenerator (segments.py, SRTWriter.py).                       *)
(*                                                                         *)
(* Times.  The program keeps times as floating-point seconds.  The model   *)
(* keeps them as exact integers counting 1/TicksPerSecond of a second, so  *)
(* that t seconds is t * TicksPerSecond ticks.  Every input time is an     *)
(* even number of ticks, which makes the one division of the gap closer,   *)
(* (a + b) / 2, exact.  Floating-point rounding is not modelled.           *)
(*                                                                         *)
(* Objects.  Python objects that the code shares or mutates in place are   *)
(* heap cells addressed by positive integers; 0 stands for None.           *)
(***************************************************************************)
EXTENDS Integers, Sequences, FiniteSets, TLC

VARIABLES
    gc_heap,    \* [seg, itt]: the Segments objects and the ITTTime objects, by ref
    gc_lists,   \* heap of Python lists of Segments: list ref -> sequence of refs
    gc_ret,     \* list ref returned by closeGapBetweenListOfSegments (0: none yet)
    gc_gap,     \* the gap argument of the call (0 before the call)
    gc_pre,     \* the heap as it was when closeGapBetweenListOfSegments was called
    gc_pc,      \* "idle" (not part of the run), "new", "timed", "closed", "raised"
    tc_in,      \* ITTTime: the arguments [t, frame_rate] of the constructor
    tc_out,     \* ITTTime: the object constructed (NoITT before)
    tc_pc,      \* "idle", "args", "made"
    sub_heap,   \* expansion: the Segments and ITTTime objects
    sub_in,     \* expansion: the list given to generateFlattenedSegments
    sub_out,    \* expansion: the list it returned
    sub_pre,    \* expansion: the heap when generateFlattenedSegments was called
    sub_pc,     \* "idle", "new", "flat", "timed"
    sub_str,    \* expansion: what to_itt_string gave for the object sub_str.r (0: not called)
    rp_segs,    \* repair: the caller's list of segment dictionaries (filled in place)
    rp_pre,     \* repair: that list as it was before the latest call
    rp_pc,      \* "idle", "new", "once", "twice"
    st_arrays,  \* stitcher: the caller's arrays of segment dictionaries (shifted in place)
    st_lengths, \* stitcher: audio_lengths, [given, at]; given is FALSE for None
    st_out,     \* stitcher: the returned converter's list, as <<array, index>> of the caller's dictionaries
    st_prevout, \* stitcher: the list returned by the call before the latest one
    st_pre,     \* stitcher: the arrays as they were before the latest call
    st_orig,    \* stitcher: the arrays as the caller built them
    st_pc,      \* "idle", "new", "once", "twice", "raised"
    cv_segs,    \* converter: self.segments
    cv_orig,    \* converter: the segments it was constructed with
    cv_entries, \* converter: the entries of the SRT string returned last
    cv_n,       \* converter: the words_per_segment applied last (0: none yet)
    cv_last,    \* converter: "idle", "new", "single", "highlight", "raised", "adjust",
                \* "plain_n" (to_srt_plain_text(n)), "plain" (to_srt_plain_text())
    cw_words,   \* chunking: the caller's flat list of word dictionaries
    cw_pre,     \* chunking: that list as it was before the call
    cw_out,     \* chunking: the segments returned
    cw_n,       \* chunking: the words_per_segment of the call
    cw_pc       \* "idle", "new", "made"

gc_vars == <<gc_heap, gc_lists, gc_ret, gc_gap, gc_pre, gc_pc>>
tc_vars == <<tc_in, tc_out, tc_pc>>
sub_vars == <<sub_heap, sub_in, sub_out, sub_pre, sub_pc, sub_str>>
rp_vars == <<rp_segs, rp_pre, rp_pc>>
st_vars == <<st_arrays, st_lengths, st_out, st_prevout, st_pre, st_orig, st_pc>>
cv_vars == <<cv_segs, cv_orig, cv_entries, cv_n, cv_last>>
cw_vars == <<cw_words, cw_pre, cw_out, cw_n, cw_pc>>
vars == <<gc_vars, tc_vars, sub_vars, rp_vars, st_vars, cv_vars, cw_vars>>

----------------------------------------------------------------------------
(* Bounds *)

\* Resolution of the model's clock: ticks per second of the float times.
TicksPerSecond == 8
\* Longest list of cues handed to the gap closer.
MaxSegs == 3
\* Whole hours reached by the times given to ITTTime.
MaxHours == 1
\* Expansion: most segments in the list, most words in all of them together.
MaxSubSegs == 2
MaxSubWords == 3
\* Repair: most segments in the list, most words in all of them together.
MaxRepairSegs == 2
MaxRepairWords == 4
\* Stitching: most arrays in one call, most segments in all of them together.
MaxArrays == 3
MaxStitchSegs == 3

\* Times of the cues handed to the gap closer, in ticks: 0s, 0.25s, 0.5s,
\* 0.75s and 1s.  At 2 frames per second they fall pairwise into one frame,
\* and the last one lies in the next second.
Times == {0, 2, 4, 6, 8}
\* Frame rates (24 is the default of to_itt_highlight_word and ITTGenerator).
FrameRates == {2, 24}
\* Gap thresholds, in ticks: a quarter of a second and the default of one second.
Gaps == {2, 8}

RangeOf(s) == {s[i] : i \in DOMAIN s}
\* f[1] + ... + f[n]
Sum(f, n) == LET RECURSIVE S(_)
                 S(k) == IF k = 0 THEN 0 ELSE f[k] + S(k - 1)
             IN  S(n)

----------------------------------------------------------------------------
(* SRTWriter.py: SRTConverter.correct_missing_times *)

(* A word dictionary is [word, start, end, has_start, has_end]: has_start is
   'start' in word, and start is 0 while the key is missing.  A segment
   dictionary is [start, end, text, words]; a segment without the key 'words'
   is one with no words (segment.get('words', [])). *)

\* A variant that takes a missing end from the previous word before the next.
RepairWordPreviousFirst(words, i) ==
    LET word == words[i]
        hasPrev == i > 1 /\ words[i - 1].has_end
        hasNext == i < Len(words) /\ words[i + 1].has_start
        w1 == IF ~word.has_start
              THEN [word EXCEPT !.has_start = TRUE,
                                !.start = IF hasPrev THEN words[i - 1].end
                                          ELSE IF hasNext THEN words[i + 1].start
                                          ELSE 0]
              ELSE word
    IN  IF ~w1.has_end
        THEN [w1 EXCEPT !.has_end = TRUE,
                        !.end = IF hasPrev THEN words[i - 1].end
                                ELSE IF hasNext THEN words[i + 1].start
                                ELSE w1.start]
        ELSE w1

\* Lines 68-75 for the i-th word of the list as it stands: the neighbours are
\* read as they are now, the previous one already repaired.
RepairWord(words, i) ==
    LET word == words[i]
        hasPrev == i > 1 /\ words[i - 1].has_end
        hasNext == i < Len(words) /\ words[i + 1].has_start
        w1 == IF ~word.has_start
              THEN [word EXCEPT !.has_start = TRUE,
                                !.start = IF hasPrev THEN words[i - 1].end
                                          ELSE IF hasNext THEN words[i + 1].start
                                          ELSE 0]
              ELSE word
    IN  IF ~w1.has_end
        THEN [w1 EXCEPT !.has_end = TRUE,
                        !.end = IF hasNext THEN words[i + 1].start
                                ELSE IF hasPrev THEN words[i - 1].end
                                ELSE w1.start]
        ELSE w1

\* A variant that repairs every word against the list as it was given.
RepairWordsFromGiven(words, i) ==
    [j \in DOMAIN words |-> IF j >= i THEN RepairWord(words, j) ELSE words[j]]

\* The loop of line 67 from the i-th word on, each word written back before
\* the next is looked at.
RECURSIVE RepairWordsFrom(_, _)
RepairWordsFrom(words, i) ==
    IF i > Len(words) THEN words
    ELSE RepairWordsFrom([words EXCEPT ![i] = RepairWord(words, i)], i + 1)

\* correct_missing_times(segments): every segment's words, in place; the same
\* list is returned.
correct_missing_times(segments) ==
    [k \in DOMAIN segments |->
        [segments[k] EXCEPT !.words = RepairWordsFrom(segments[k].words, 1)]]

----------------------------------------------------------------------------
(* The repair run: SRTConverter(segments) calls correct_missing_times on the
   caller's list (line 50); a second converter may be made of the same list. *)

\* Whether a word dictionary has 'start' and whether it has 'end'.  The
\* times are the word's own: the j-th word of the list runs from 3j - 1 to
\* 3j + 1, so that no two stamps of the list are equal and none is 0.
RpStamps == BOOLEAN \X BOOLEAN
RpWordTexts == <<"a", "b", "c", "d", "e">>
RpSegTexts == <<"one", "two", "three", "four">>

RpDicts(ws, lens) ==
    [ k \in DOMAIN lens |->
        [ start |-> 0, end |-> 8, text |-> RpSegTexts[k],
          words |-> [ i \in 1..lens[k] |->
                        LET j == Sum(lens, k - 1) + i
                        IN  [ word |-> RpWordTexts[j],
                              has_start |-> ws[j][1],
                              start |-> IF ws[j][1] THEN 3 * j - 1 ELSE 0,
                              has_end |-> ws[j][2],
                              end |-> IF ws[j][2] THEN 3 * j + 1 ELSE 0 ] ] ] ]

RpIdle ==
    /\ rp_segs = <<>>
    /\ rp_pre = <<>>
    /\ rp_pc = "idle"

RpInit ==
    \E n \in 0..MaxRepairSegs, m \in 0..MaxRepairWords :
    \E lens \in [1..n -> 0..MaxRepairWords], ws \in [1..m -> RpStamps] :
        /\ Sum(lens, n) = m
        /\ rp_segs = RpDicts(ws, lens)
        /\ rp_pre = <<>>
        /\ rp_pc = "new"

\* SRTConverter.__init__ on the list (line 50).
RpRepair ==
    /\ rp_pc = "new"
    /\ rp_segs' = correct_missing_times(rp_segs)
    /\ rp_pre' = rp_segs
    /\ rp_pc' = "once"
    /\ UNCHANGED <<gc_vars, tc_vars, sub_vars, st_vars>>
    /\ UNCHANGED <<cv_vars, cw_vars>>

\* SRTConverter.__init__ on the same list again.
RpRepairAgain ==
    /\ rp_pc = "once"
    /\ rp_segs' = correct_missing_times(rp_segs)
    /\ rp_pre' = rp_segs
    /\ rp_pc' = "twice"
    /\ UNCHANGED <<gc_vars, tc_vars, sub_vars, st_vars>>
    /\ UNCHANGED <<cv_vars, cw_vars>>

RpNext == RpRepair \/ RpRepairAgain

----------------------------------------------------------------------------
(* SRTWriter.py: SRTConverter.initialize_with_normalized_timestamps *)

(* The dictionaries of segment_arrays are the caller's: lines 370-375 add the
   offset to them where they are, and normalized_segments collects the same
   dictionaries.  The list the converter is made of is therefore a sequence
   of <<k, i>>, the i-th dictionary of the k-th array.  A call in progress is
   [arrays, out, ok]; ok turns FALSE when an exception leaves the call. *)

\* A variant that places every array at the elapsed time without aligning
\* its first segment.
TimeOffsetUnaligned(total_elapsed_time, segments) ==
    total_elapsed_time

\* Line 366.
TimeOffset(total_elapsed_time, segments) ==
    total_elapsed_time - segments[1].start

\* A variant that leaves the caller's dictionary as it was.
ShiftedInCopy(arrays, k, i, segment) ==
    arrays

\* Lines 370-375 write into the dictionary they read: the i-th segment of
\* the k-th array now is the shifted one.
ShiftedInPlace(arrays, k, i, segment) ==
    [arrays EXCEPT ![k][i] = segment]

\* Lines 374-375 for one word.  word["start"] += time_offset raises KeyError
\* when the key is missing; a word that has its start but no end is left with
\* the start shifted.
ShiftWord(word, time_offset) ==
    IF ~word.has_start THEN [word |-> word, ok |-> FALSE]
    ELSE LET w1 == [word EXCEPT !.start = @ + time_offset]
         IN  IF ~w1.has_end THEN [word |-> w1, ok |-> FALSE]
             ELSE [word |-> [w1 EXCEPT !.end = @ + time_offset], ok |-> TRUE]

\* The loop of line 373 from the i-th word on.
RECURSIVE ShiftWordsFrom(_, _, _)
ShiftWordsFrom(words, i, time_offset) ==
    IF i > Len(words) THEN [words |-> words, ok |-> TRUE]
    ELSE LET r == ShiftWord(words[i], time_offset)
             shifted == [words EXCEPT ![i] = r.word]
         IN  IF r.ok THEN ShiftWordsFrom(shifted, i + 1, time_offset)
             ELSE [words |-> shifted, ok |-> FALSE]

\* Lines 370-375 for one segment.
ShiftSegment(segment, time_offset) ==
    LET r == ShiftWordsFrom(segment.words, 1, time_offset)
    IN  [ segment |-> [segment EXCEPT !.start = @ + time_offset,
                                      !.end = @ + time_offset,
                                      !.words = r.words],
          ok |-> r.ok ]

\* The loop of line 368 over the k-th array from its i-th segment on; a
\* segment is appended (line 377) once its words are shifted.
RECURSIVE ShiftArrayFrom(_, _, _, _)
ShiftArrayFrom(st, k, i, time_offset) ==
    IF i > Len(st.arrays[k]) THEN st
    ELSE LET r == ShiftSegment(st.arrays[k][i], time_offset)
             arrays == ShiftedInPlace(st.arrays, k, i, r.segment)
         IN  IF r.ok
             THEN ShiftArrayFrom([st EXCEPT !.arrays = arrays,
                                            !.out = Append(@, <<k, i>>)],
                                 k, i + 1, time_offset)
             ELSE [st EXCEPT !.arrays = arrays, !.ok = FALSE]

\* A variant that never advances the elapsed time.
AdvanceNever(total_elapsed_time, audio_lengths, k) ==
    total_elapsed_time

\* Lines 380-381 for the k-th array (index = k - 1): the elapsed time
\* advances only if the list has an entry for this array.
Advance(total_elapsed_time, audio_lengths, k) ==
    IF k <= Len(audio_lengths.at)
    THEN total_elapsed_time + audio_lengths.at[k]
    ELSE total_elapsed_time

\* The loop of line 361 from the k-th array on (index = k - 1).  An empty
\* array is passed over (lines 362-363).  len(audio_lengths) of line 380
\* raises TypeError when audio_lengths is None; with a list, the elapsed time
\* advances only if the list has an entry for this array.
RECURSIVE StitchFrom(_, _, _, _)
StitchFrom(st, k, audio_lengths, total_elapsed_time) ==
    IF k > Len(st.arrays) THEN st
    ELSE IF st.arrays[k] = <<>>
    THEN StitchFrom(st, k + 1, audio_lengths, total_elapsed_time)
    ELSE LET time_offset == TimeOffset(total_elapsed_time, st.arrays[k])
             st1 == ShiftArrayFrom(st, k, 1, time_offset)
         IN  IF ~st1.ok THEN st1
             ELSE IF ~audio_lengths.given THEN [st1 EXCEPT !.ok = FALSE]
             ELSE StitchFrom(st1, k + 1, audio_lengths,
                             Advance(total_elapsed_time, audio_lengths, k))

\* The whole call: the loop, then SRTConverter(normalized_segments), whose
\* constructor runs correct_missing_times over the collected dictionaries,
\* which are all the dictionaries of the arrays.
initialize_with_normalized_timestamps(segment_arrays, audio_lengths) ==
    LET st == StitchFrom([arrays |-> segment_arrays, out |-> <<>>, ok |-> TRUE],
                         1, audio_lengths, 0)
    IN  IF st.ok
        THEN [st EXCEPT !.arrays = [k \in DOMAIN st.arrays |->
                                       correct_missing_times(st.arrays[k])]]
        ELSE st

----------------------------------------------------------------------------
(* The stitching run: one list of arrays and one audio_lengths, handed to
   initialize_with_normalized_timestamps, and handed to it once more. *)

\* Declared clip lengths, in ticks: half a second and one second.
Durations == {4, 8}
StSegTexts == <<"one", "two", "three", "four", "five">>

StWord(text, start, end) ==
    [word |-> text, has_start |-> TRUE, start |-> start, has_end |-> TRUE, end |-> end]

\* The segment dictionaries the arrays are made of: two words that tile the
\* segment; no 'words' key; one word that lacks its 'end'.
StShapes == {"tiled", "bare", "open"}
StDict(shape, text) ==
    CASE shape = "tiled" ->
            [start |-> 0, end |-> 4, text |-> text,
             words |-> <<StWord("a", 0, 2), StWord("b", 2, 4)>>]
      [] shape = "bare" ->
            [start |-> 2, end |-> 6, text |-> text, words |-> <<>>]
      [] shape = "open" ->
            [start |-> 4, end |-> 8, text |-> text,
             words |-> <<[word |-> "c", has_start |-> TRUE, start |-> 4,
                          has_end |-> FALSE, end |-> 0]>>]

\* The flat sequence of shapes cut into arrays of the lengths lens.
StArrays(shapes, lens) ==
    [ k \in DOMAIN lens |->
        [ i \in 1..lens[k] |->
            LET j == Sum(lens, k - 1) + i
            IN  StDict(shapes[j], StSegTexts[j]) ] ]

\* audio_lengths: None, or a list with an entry for the first arrays only,
\* or for all of them.
StLengths(n) ==
    {[given |-> FALSE, at |-> <<>>]}
    \cup {[given |-> TRUE, at |-> at] :
             at \in UNION {[1..j -> Durations] : j \in 0..n}}

StIdle ==
    /\ st_arrays = <<>>
    /\ st_lengths = [given |-> TRUE, at |-> <<>>]
    /\ st_out = <<>>
    /\ st_prevout = <<>>
    /\ st_pre = <<>>
    /\ st_orig = <<>>
    /\ st_pc = "idle"

StInit ==
    \E n \in 0..MaxArrays, m \in 0..MaxStitchSegs :
    \E lens \in [1..n -> 0..MaxStitchSegs], shapes \in [1..m -> StShapes] :
        /\ Sum(lens, n) = m
        /\ st_arrays = StArrays(shapes, lens)
        /\ st_lengths \in StLengths(n)
        /\ st_out = <<>>
        /\ st_prevout = <<>>
        /\ st_pre = <<>>
        /\ st_orig = st_arrays
        /\ st_pc = "new"

\* One call, from the state before: the arrays end as the call left them,
\* also when it raised; the list is returned only when it did not.
StCall(next_pc) ==
    LET st == initialize_with_normalized_timestamps(st_arrays, st_lengths)
    IN  /\ st_arrays' = st.arrays
        /\ st_out' = IF st.ok THEN st.out ELSE <<>>
        /\ st_prevout' = st_out
        /\ st_pre' = st_arrays
        /\ st_pc' = IF st.ok THEN next_pc ELSE "raised"
        /\ UNCHANGED <<st_lengths, st_orig>>
        /\ UNCHANGED <<gc_vars, tc_vars, sub_vars, rp_vars>>
        /\ UNCHANGED <<cv_vars, cw_vars>>

\* SRTConverter.initialize_with_normalized_timestamps(arrays, lengths).
StStitch ==
    /\ st_pc = "new"
    /\ StCall("once")

\* The same call on the same arrays and lengths again.
StStitchAgain ==
    /\ st_pc = "once"
    /\ StCall("twice")

StNext == StStitch \/ StStitchAgain

----------------------------------------------------------------------------
(* segments.py: ITTTime *)

\* Python's divmod(a, b) for b > 0: floor division and non-negative remainder.
DivMod(a, b) == <<a \div b, a % b>>

\* A constructor that rounds the frame to the nearest one instead of truncating.
ITTTimeRounding(t, frame_rate) ==
    LET hr  == DivMod(t, 3600 * TicksPerSecond)
        ms  == DivMod(hr[2], 60 * TicksPerSecond)
    IN  [ frame_rate |-> frame_rate,
          hours      |-> hr[1],
          minutes    |-> ms[1],
          seconds    |-> ms[2] \div TicksPerSecond,
          frames     |-> (2 * (t % TicksPerSecond) * frame_rate + TicksPerSecond)
                             \div (2 * TicksPerSecond) ]

\* ITTTime.__init__: int() of a non-negative float truncates; time % 1 is the
\* fraction of the second, t % TicksPerSecond ticks.
ITTTime(t, frame_rate) ==
    LET hr  == DivMod(t, 3600 * TicksPerSecond)
        ms  == DivMod(hr[2], 60 * TicksPerSecond)
    IN  [ frame_rate |-> frame_rate,
          hours      |-> hr[1],
          minutes    |-> ms[1],
          seconds    |-> ms[2] \div TicksPerSecond,
          frames     |-> ((t % TicksPerSecond) * frame_rate) \div TicksPerSecond ]

----------------------------------------------------------------------------
(* segments.py: Word, Segments *)

\* Word.__init__ from a word dictionary; itt_start / itt_end are values here
\* (no code shares or patches a word's ITTTime), NoITT stands for None.
NoITT == [frame_rate |-> 0, hours |-> -1, minutes |-> -1, seconds |-> -1, frames |-> -1]

Word(word, frame_rate) ==
    [ start |-> word.start, end |-> word.end, text |-> word.word,
      highlighted |-> word.highlighted, frame_rate |-> frame_rate,
      itt_start |-> NoITT, itt_end |-> NoITT ]

\* Word.calculate_itt_time: nothing happens while frame_rate is None (0).
calculate_itt_time(w) ==
    IF w.frame_rate # 0
    THEN [w EXCEPT !.itt_start = ITTTime(w.start, w.frame_rate),
                   !.itt_end   = ITTTime(w.end, w.frame_rate)]
    ELSE w

convertToDictionary(w) ==
    [start |-> w.start, end |-> w.end, word |-> w.text, highlighted |-> w.highlighted]

\* Segments.__init__ from a segment dictionary: no timecodes yet.
Segments(segment, frame_rate) ==
    [ start |-> segment.start, end |-> segment.end, text |-> segment.text,
      words |-> [i \in DOMAIN segment.words |-> Word(segment.words[i], frame_rate)],
      frame_rate |-> frame_rate, itt_start |-> 0, itt_end |-> 0 ]

\* A heap: the Segments objects and the ITTTime objects they point to.
EmptyHeap == [seg |-> <<>>, itt |-> <<>>]

----------------------------------------------------------------------------
(* The timecode run: ITTTime(time_in_seconds, frame_rate) on one pair of
   arguments. *)

\* Times around the start and the end of every hour up to MaxHours: two
\* minutes and two seconds after the hour, two minutes before the next.
TcTimes ==
    {h * 3600 * TicksPerSecond + d :
        h \in 0..MaxHours, d \in 0..(122 * TicksPerSecond)}
    \cup {h * 3600 * TicksPerSecond - d :
        h \in 1..(MaxHours + 1), d \in 1..(120 * TicksPerSecond)}

\* Frame rates given to ITTTime (30 is the rate of the usage example).
TcFrameRates == FrameRates \cup {1, 30}

TcIdle ==
    /\ tc_in = [t |-> 0, frame_rate |-> 0]
    /\ tc_out = NoITT
    /\ tc_pc = "idle"

TcInit ==
    /\ \E t \in TcTimes, fr \in TcFrameRates : tc_in = [t |-> t, frame_rate |-> fr]
    /\ tc_out = NoITT
    /\ tc_pc = "args"

TcConstruct ==
    /\ tc_pc = "args"
    /\ tc_out' = ITTTime(tc_in.t, tc_in.frame_rate)
    /\ tc_pc' = "made"
    /\ UNCHANGED tc_in
    /\ UNCHANGED <<gc_vars, sub_vars, rp_vars, st_vars>>
    /\ UNCHANGED <<cv_vars, cw_vars>>

TcNext == TcConstruct

\* Segments.calculate_itt_times on the object r: two fresh ITTTime objects
\* when a frame rate is set, and every word recomputed.
calculate_itt_times(h, r) ==
    LET s  == h.seg[r]
        n  == Len(h.itt)
        ws == [i \in DOMAIN s.words |-> calculate_itt_time(s.words[i])]
    IN  IF s.frame_rate # 0
        THEN [ seg |-> [h.seg EXCEPT ![r] = [s EXCEPT !.itt_start = n + 1,
                                                      !.itt_end = n + 2,
                                                      !.words = ws]],
               itt |-> h.itt \o << ITTTime(s.start, s.frame_rate),
                                   ITTTime(s.end, s.frame_rate) >> ]
        ELSE [h EXCEPT !.seg[r].words = ws]

\* Segments.updateFrameRate on the object r.
updateFrameRate(h, r, new_frame_rate) ==
    LET s  == h.seg[r]
        h1 == [h EXCEPT !.seg[r] =
                 [s EXCEPT !.frame_rate = new_frame_rate,
                           !.words = [i \in DOMAIN s.words |->
                                        [s.words[i] EXCEPT !.frame_rate = new_frame_rate]]]]
    IN  calculate_itt_times(h1, r)

\* updateFrameRateForSegments: every segment of the list, in order, in place.
RECURSIVE updateFrameRateFrom(_, _, _, _)
updateFrameRateFrom(h, list, i, new_frame_rate) ==
    IF i > Len(list) THEN h
    ELSE updateFrameRateFrom(updateFrameRate(h, list[i], new_frame_rate),
                             list, i + 1, new_frame_rate)

updateFrameRateForSegments(h, list, new_frame_rate) ==
    updateFrameRateFrom(h, list, 1, new_frame_rate)

\* ITTTime.__str__: HH:MM:SS:FF, kept as the four numbers it prints.
ITTTimeStr(itt) == <<itt.hours, itt.minutes, itt.seconds, itt.frames>>

\* No string: to_itt_string was not called, or raised.
NoString == [r |-> 0, ok |-> FALSE, begin |-> <<>>, end |-> <<>>, words |-> <<>>]

\* A variant that renders a segment without timecodes at 00:00:00:00.
ToIttStringSilent(h, r) ==
    LET s == h.seg[r]
        begin == IF s.itt_start = 0 THEN <<0, 0, 0, 0>> ELSE ITTTimeStr(h.itt[s.itt_start])
        end == IF s.itt_end = 0 THEN <<0, 0, 0, 0>> ELSE ITTTimeStr(h.itt[s.itt_end])
    IN  [ r |-> r, ok |-> TRUE, begin |-> begin, end |-> end,
          words |-> [i \in DOMAIN s.words |->
                       [text |-> s.words[i].text,
                        highlighted |-> s.words[i].highlighted]] ]

\* Segments.to_itt_string on the object r: ValueError while itt_start or
\* itt_end is None; else the <p> element, kept as its begin and end and its
\* words in order, each highlighted (in a <span>) or not.
to_itt_string(h, r) ==
    LET s == h.seg[r]
    IN  IF s.itt_start = 0 \/ s.itt_end = 0
        THEN [NoString EXCEPT !.r = r]
        ELSE [ r |-> r, ok |-> TRUE,
               begin |-> ITTTimeStr(h.itt[s.itt_start]),
               end |-> ITTTimeStr(h.itt[s.itt_end]),
               words |-> [i \in DOMAIN s.words |->
                            [text |-> s.words[i].text,
                             highlighted |-> s.words[i].highlighted]] ]

----------------------------------------------------------------------------
(* segments.py: Segments.generate_subsegments, generateFlattenedSegments *)

\* A variant that hands out the segment's own Word objects instead of copies.
SameWords(words) == [words |-> words, shared |-> TRUE]

\* Line 61, copy.deepcopy(self.words): new Word objects with the same fields.
\* shared tells whether a change to them is a change to self.words.
CopyOfWords(words) == [words |-> words, shared |-> FALSE]

\* One iteration of the loop of lines 60-66 on the segment object r, for its
\* idx-th word: the new Segments object is appended to the heap.
SubsegmentFor(h, r, idx) ==
    LET newWords == CopyOfWords(h.seg[r].words)
        marked   == [newWords.words EXCEPT ![idx].highlighted = TRUE]
        h1       == IF newWords.shared THEN [h EXCEPT !.seg[r].words = marked] ELSE h
        self     == h1.seg[r]
        word     == self.words[idx]
        newSegment == Segments([ start |-> word.start, end |-> word.end,
                                 text |-> self.text,
                                 words |-> [i \in DOMAIN marked |->
                                              convertToDictionary(marked[i])] ],
                               self.frame_rate)
        h2       == [h1 EXCEPT !.seg = Append(h1.seg, newSegment)]
    IN  calculate_itt_times(h2, Len(h2.seg))

RECURSIVE SubsegmentsFrom(_, _, _)
SubsegmentsFrom(h, r, idx) ==
    IF idx > Len(h.seg[r].words) THEN h
    ELSE SubsegmentsFrom(SubsegmentFor(h, r, idx), r, idx + 1)

\* Segments.generate_subsegments on the object r: the heap afterwards and
\* the list of the new objects, one per word.
generate_subsegments(h, r) ==
    LET h1 == SubsegmentsFrom(calculate_itt_times(h, r), r, 1)
    IN  [ heap |-> h1,
          list |-> [i \in 1..Len(h.seg[r].words) |-> Len(h.seg) + i] ]

\* generateFlattenedSegments: the results of the segments from i on, in order.
RECURSIVE FlattenFrom(_, _, _, _)
FlattenFrom(h, segments, i, flattenedSegments) ==
    IF i > Len(segments) THEN [heap |-> h, list |-> flattenedSegments]
    ELSE LET g == generate_subsegments(h, segments[i])
         IN  FlattenFrom(g.heap, segments, i + 1, flattenedSegments \o g.list)

generateFlattenedSegments(h, segments) == FlattenFrom(h, segments, 1, <<>>)

----------------------------------------------------------------------------
(* The expansion run: a list of Segments objects, with or without a frame
   rate, is given to generateFlattenedSegments (SRTWriter.py 391-394). *)

\* Start, end and highlight flag of a word dictionary.
SubWordPool == {<<0, 2>>, <<2, 6>>} \X BOOLEAN
\* The texts of the words and of the segments, by position.
SubWordTexts == <<"a", "b", "c", "d", "e">>
SubSegTexts == <<"one", "two", "three", "four">>

\* The segment dictionaries made of the flat word list ws cut into pieces of
\* the lengths lens.
SubDicts(ws, lens) ==
    [ k \in DOMAIN lens |->
        [ start |-> 0, end |-> 8, text |-> SubSegTexts[k],
          words |-> [ i \in 1..lens[k] |->
                        LET j == Sum(lens, k - 1) + i
                        IN  [ start |-> ws[j][1][1], end |-> ws[j][1][2],
                              word |-> SubWordTexts[j], highlighted |-> ws[j][2] ] ] ] ]

SubIdle ==
    /\ sub_heap = EmptyHeap
    /\ sub_in = <<>>
    /\ sub_out = <<>>
    /\ sub_pre = EmptyHeap
    /\ sub_pc = "idle"
    /\ sub_str = NoString

SubInit ==
    \E n \in 0..MaxSubSegs, m \in 0..MaxSubWords :
    \E lens \in [1..n -> 0..MaxSubWords], ws \in [1..m -> SubWordPool] :
    \E fr \in {0, 24} :
        /\ Sum(lens, n) = m
        /\ sub_heap = [ seg |-> [k \in 1..n |-> Segments(SubDicts(ws, lens)[k], fr)],
                        itt |-> <<>> ]
        /\ sub_in = [k \in 1..n |-> k]
        /\ sub_out = <<>>
        /\ sub_pre = EmptyHeap
        /\ sub_pc = "new"
        /\ sub_str = NoString

SubFlatten ==
    /\ sub_pc = "new"
    /\ LET g == generateFlattenedSegments(sub_heap, sub_in)
       IN  /\ sub_heap' = g.heap
           /\ sub_out' = g.list
    /\ sub_pre' = sub_heap
    /\ sub_pc' = "flat"
    /\ UNCHANGED <<sub_in, sub_str>>
    /\ UNCHANGED <<gc_vars, tc_vars, rp_vars, st_vars>>
    /\ UNCHANGED <<cv_vars, cw_vars>>

\* Frame rates given to updateFrameRateForSegments: None (0), 1 and the
\* default of to_itt_highlight_word.
SubFrameRates == {0, 1, 24}

\* updateFrameRateForSegments on the flattened list (SRTWriter.py 396).
SubUpdateFrameRate ==
    /\ sub_pc = "flat"
    /\ sub_str.r = 0
    /\ \E f \in SubFrameRates :
          sub_heap' = updateFrameRateForSegments(sub_heap, sub_out, f)
    /\ sub_pc' = "timed"
    /\ UNCHANGED <<sub_in, sub_out, sub_pre, sub_str>>
    /\ UNCHANGED <<gc_vars, tc_vars, rp_vars, st_vars>>
    /\ UNCHANGED <<cv_vars, cw_vars>>

\* to_itt_string on one segment of the list in hand (iTTGenerator.py 134): the
\* list from createSegmentsList before the expansion, the flattened list
\* after it.
SubRender ==
    /\ sub_pc \in {"new", "flat", "timed"}
    /\ sub_str.r = 0
    /\ \E r \in RangeOf(IF sub_pc = "new" THEN sub_in ELSE sub_out) :
          sub_str' = to_itt_string(sub_heap, r)
    /\ UNCHANGED <<sub_heap, sub_in, sub_out, sub_pre, sub_pc>>
    /\ UNCHANGED <<gc_vars, tc_vars, rp_vars, st_vars>>
    /\ UNCHANGED <<cv_vars, cw_vars>>

SubNext == SubFlatten \/ SubUpdateFrameRate \/ SubRender

----------------------------------------------------------------------------
(* segments.py: closeGapBetweenListOfSegments *)

Rank(S, x) == Cardinality({y \in S : y <= x})
Nth(S, k) == CHOOSE x \in S : Rank(S, x) = k

\* copy.deepcopy(segments): a new list of new Segments objects whose ITTTime
\* objects are new too; an object reachable twice is copied once (the memo).
DeepCopy(h, list) ==
    LET segRefs == RangeOf(list)
        ittRefs == UNION {{h.seg[r].itt_start, h.seg[r].itt_end} : r \in segRefs} \ {0}
        newSeg(r) == Len(h.seg) + Rank(segRefs, r)
        newItt(r) == IF r = 0 THEN 0 ELSE Len(h.itt) + Rank(ittRefs, r)
        copyOf(r) == [h.seg[r] EXCEPT !.itt_start = newItt(h.seg[r].itt_start),
                                      !.itt_end   = newItt(h.seg[r].itt_end)]
    IN  [ heap |-> [ seg |-> h.seg \o [k \in 1..Cardinality(segRefs) |->
                                          copyOf(Nth(segRefs, k))],
                     itt |-> h.itt \o [k \in 1..Cardinality(ittRefs) |->
                                          h.itt[Nth(ittRefs, k)]] ],
          list |-> [i \in DOMAIN list |-> newSeg(list[i])] ]

\* Lines 113-123: both timecodes lie in the same second; the frame of the
\* previous end is patched in place and the float times are made equal.
SnapFrames(h, prev, cur) ==
    LET pe == h.seg[prev].itt_end
        h1 == [h EXCEPT !.itt[pe].frames = h.itt[h.seg[cur].itt_start].frames,
                        !.seg[prev].end  = h.seg[cur].start]
        cs == h1.seg[cur].itt_start
    IN  [h1 EXCEPT !.itt[cs].frames = h1.itt[h1.seg[prev].itt_end].frames,
                   !.seg[cur].start = h1.seg[prev].end]

\* A variant that keeps the previous cue's end and moves only the current start.
MeetAtPreviousEnd(h, prev, cur) ==
    LET t == h.seg[prev].end
        n == Len(h.itt)
    IN  [ seg |-> [h.seg EXCEPT ![prev].itt_end = n + 1,
                                ![cur].itt_start = n + 1, ![cur].start = t],
          itt |-> Append(h.itt, ITTTime(t, h.seg[cur].frame_rate)) ]

\* Lines 127-135: both cues meet at the average, with one shared ITTTime object.
MeetAtAverage(h, prev, cur) ==
    LET avgTime == (h.seg[cur].start + h.seg[prev].end) \div 2
        n       == Len(h.itt)
    IN  [ seg |-> [h.seg EXCEPT ![prev].itt_end = n + 1, ![prev].end = avgTime,
                                ![cur].itt_start = n + 1, ![cur].start = avgTime],
          itt |-> Append(h.itt, ITTTime(avgTime, h.seg[cur].frame_rate)) ]

\* A variant of the test that also bridges a gap equal to the threshold.
TooCloseInclusive(p, c, gap) == c.start - p.end <= gap

\* Line 110: the gap between the two cues is below the threshold.
TooClose(p, c, gap) == c.start - p.end < gap

\* One iteration of the first loop (lines 107-135) on the pair (idx-1, idx),
\* idx counted from 1.  ok = FALSE: the iteration raised (an attribute of None
\* was read, or ITTTime was given no frame rate).
BridgePair(h, list, idx, gap) ==
    LET prev == list[idx - 1]
        cur  == list[idx]
        p    == h.seg[prev]
        c    == h.seg[cur]
    IN  IF TooClose(p, c, gap)
        THEN IF p.itt_end = 0 \/ c.itt_start = 0
             THEN [ok |-> FALSE, heap |-> h]
             ELSE LET pe == h.itt[p.itt_end]
                      cs == h.itt[c.itt_start]
                      sameTime == /\ pe.seconds = cs.seconds
                                  /\ pe.minutes = cs.minutes
                                  /\ pe.hours = cs.hours
                  IN  IF sameTime
                      THEN [ok |-> TRUE, heap |-> SnapFrames(h, prev, cur)]
                      ELSE IF c.frame_rate = 0
                           THEN [ok |-> FALSE, heap |-> h]
                           ELSE [ok |-> TRUE, heap |-> MeetAtAverage(h, prev, cur)]
        ELSE [ok |-> TRUE, heap |-> h]

RECURSIVE Bridging(_, _, _, _)
Bridging(h, list, idx, gap) ==
    IF idx > Len(list) THEN [ok |-> TRUE, heap |-> h]
    ELSE LET r == BridgePair(h, list, idx, gap)
         IN  IF r.ok THEN Bridging(r.heap, list, idx + 1, gap) ELSE r

\* A variant that borrows the time and leaves the timecode as it was.
BorrowStartTimeOnly(h, list, idx) ==
    IF idx > 1 /\ h.seg[list[idx]].start = h.seg[list[idx]].end
    THEN [h EXCEPT !.seg[list[idx]].start = h.seg[list[idx - 1]].end]
    ELSE h

\* Lines 142-146: borrow the previous cue's end as this cue's start.
BorrowStart(h, list, idx) ==
    IF idx > 1 /\ h.seg[list[idx]].start = h.seg[list[idx]].end
    THEN [h EXCEPT !.seg[list[idx]].start = h.seg[list[idx - 1]].end,
                   !.seg[list[idx]].itt_start = h.seg[list[idx - 1]].itt_end]
    ELSE h

\* A variant that borrows the next cue's end instead of its start.
BorrowEndOfNext(h, list, idx) ==
    IF idx < Len(list) /\ h.seg[list[idx]].start = h.seg[list[idx]].end
    THEN [h EXCEPT !.seg[list[idx]].end = h.seg[list[idx + 1]].end,
                   !.seg[list[idx]].itt_end = h.seg[list[idx + 1]].itt_end]
    ELSE h

\* Lines 148-152: borrow the next cue's start as this cue's end; the test
\* start == end is made again, on the cue as BorrowStart left it.
BorrowEnd(h, list, idx) ==
    IF idx < Len(list) /\ h.seg[list[idx]].start = h.seg[list[idx]].end
    THEN [h EXCEPT !.seg[list[idx]].end = h.seg[list[idx + 1]].start,
                   !.seg[list[idx]].itt_end = h.seg[list[idx + 1]].itt_start]
    ELSE h

\* The second loop (lines 138-152), from idx on.
RECURSIVE PostFix(_, _, _)
PostFix(h, list, idx) ==
    IF idx > Len(list) THEN h
    ELSE PostFix(BorrowEnd(BorrowStart(h, list, idx), list, idx), list, idx + 1)

\* A variant that copies nothing and works on the caller's objects.
WorkInPlace(h, list) == [heap |-> h, list |-> list, fresh |-> FALSE]

\* The list the call works on: the argument itself when it has at most one
\* element (line 105 returns it), a deep copy otherwise (line 106).
WorkingCopy(h, list) ==
    IF Len(list) <= 1 THEN [heap |-> h, list |-> list, fresh |-> FALSE]
    ELSE [heap |-> DeepCopy(h, list).heap, list |-> DeepCopy(h, list).list,
          fresh |-> TRUE]

\* closeGapBetweenListOfSegments(segments, gap).  Both loops are empty on a
\* list of at most one element.  fresh: the returned list is a new list
\* object; ok = FALSE: the call raised and returned nothing.
closeGapBetweenListOfSegments(h, segments, gap) ==
    LET w == WorkingCopy(h, segments)
        b == Bridging(w.heap, w.list, 2, gap)
    IN  IF b.ok
        THEN [ok |-> TRUE, heap |-> PostFix(b.heap, w.list, 1),
              list |-> w.list, fresh |-> w.fresh]
        ELSE [ok |-> FALSE, heap |-> b.heap, list |-> <<>>, fresh |-> FALSE]

----------------------------------------------------------------------------
(* The gap-closing run: createSegmentsList / generateFlattenedSegments give
   cues without timecodes, updateFrameRateForSegments computes them, and
   closeGapBetweenListOfSegments is called on the list (SRTWriter.py 391-398). *)

\* Cues with start <= end, each carrying one word that spans it.  A list of
\* cues is in the order of the cues' starts (the order of the words they were
\* made from); a cue may still start before the previous one ends.
CuePool == {c \in Times \X Times : c[1] <= c[2]}

CueDict(c) ==
    [ start |-> c[1], end |-> c[2], text |-> "t",
      words |-> << [start |-> c[1], end |-> c[2], word |-> "t", highlighted |-> FALSE] >> ]

\* createSegmentsList: one Segments object per dictionary, no frame rate.
createSegmentsList(segments) == [i \in DOMAIN segments |-> Segments(segments[i], 0)]

\* The caller's list is list object 1.
GcInput == gc_lists[1]

\* The variables of the gap-closing run while another run is modelled.
GcIdle ==
    /\ gc_heap = EmptyHeap
    /\ gc_lists = << <<>> >>
    /\ gc_ret = 0
    /\ gc_gap = 0
    /\ gc_pre = EmptyHeap
    /\ gc_pc = "idle"

GcInit ==
    \E n \in 0..MaxSegs : \E cues \in [1..n -> CuePool] :
        /\ \A i \in 1..(n - 1) : cues[i][1] <= cues[i + 1][1]
        /\ gc_heap = [seg |-> createSegmentsList([i \in 1..n |-> CueDict(cues[i])]),
                      itt |-> <<>>]
        /\ gc_lists = << [i \in 1..n |-> i] >>
        /\ gc_ret = 0
        /\ gc_gap = 0
        /\ gc_pre = EmptyHeap
        /\ gc_pc = "new"

GcUpdateFrameRate ==
    /\ gc_pc = "new"
    /\ \E fr \in FrameRates :
          gc_heap' = updateFrameRateForSegments(gc_heap, GcInput, fr)
    /\ gc_pc' = "timed"
    /\ UNCHANGED <<gc_lists, gc_ret, gc_gap, gc_pre>>
    /\ UNCHANGED <<tc_vars, sub_vars, rp_vars, st_vars>>
    /\ UNCHANGED <<cv_vars, cw_vars>>

GcCloseGap ==
    /\ gc_pc \in {"new", "timed"}
    /\ \E gap \in Gaps :
          LET r == closeGapBetweenListOfSegments(gc_heap, GcInput, gap)
          IN  /\ gc_gap' = gap
              /\ gc_pre' = gc_heap
              /\ gc_heap' = r.heap
              /\ gc_lists' = IF r.ok /\ r.fresh THEN Append(gc_lists, r.list) ELSE gc_lists
              /\ gc_ret' = IF r.ok THEN (IF r.fresh THEN Len(gc_lists) + 1 ELSE 1) ELSE 0
              /\ gc_pc' = IF r.ok THEN "closed" ELSE "raised"
    /\ UNCHANGED <<tc_vars, sub_vars, rp_vars, st_vars>>
    /\ UNCHANGED <<cv_vars, cw_vars>>

GcNext == GcUpdateFrameRate \/ GcCloseGap

----------------------------------------------------------------------------
(* SRTWriter.py: format_time, the SRT renderers, re-chunking *)

(* A converter's segments are dictionaries [start, end, text, words] whose
   words are [word, start, end], complete as the constructor's repair leaves
   them.  A text is kept as the sequence of its tokens, text.split(); the
   text " ".join(...) of a chunk is the sequence of the chunk's words.  An SRT
   string is kept as the sequence of its entries [index, start, end, text],
   start and end being formatted times and text [tokens, highlighted], with
   highlighted the position of the token wrapped in <font>, or 0. *)

\* Lines 306-310: HH:MM:SS,mmm with the milliseconds cut off, not rounded.
format_time(time_in_seconds) ==
    LET hr == DivMod(time_in_seconds, 3600 * TicksPerSecond)
        mr == DivMod(hr[2], 60 * TicksPerSecond)
        seconds == mr[2]
        whole == seconds \div TicksPerSecond
    IN  [ hours |-> hr[1], minutes |-> mr[1], seconds |-> whole,
          milliseconds |-> ((seconds - whole * TicksPerSecond) * 1000) \div TicksPerSecond ]

\* A variant that ends the last word's entry at the end of its segment.
EntryEndAtSegmentEnd(segment, idx) ==
    IF idx = Len(segment.words)
    THEN format_time(segment.end)
    ELSE format_time(segment.words[idx + 1].start)

\* Lines 186 and 213: the end of the entry of the idx-th word of a segment.
EntryEnd(segment, idx) ==
    IF idx = Len(segment.words)
    THEN format_time(segment.words[idx].end)
    ELSE format_time(segment.words[idx + 1].start)

\* Lines 211-217 for the words of one segment from the idx-th on.
RECURSIVE SingleWordEntriesFrom(_, _, _)
SingleWordEntriesFrom(segment, idx, entry_index) ==
    IF idx > Len(segment.words) THEN <<>>
    ELSE << [ index |-> entry_index,
              start |-> format_time(segment.words[idx].start),
              end |-> EntryEnd(segment, idx),
              text |-> [tokens |-> <<segment.words[idx].word>>, highlighted |-> 0] ] >>
         \o SingleWordEntriesFrom(segment, idx + 1, entry_index + 1)

\* The loop of line 210 from the k-th segment on.
RECURSIVE SingleWordsFrom(_, _, _)
SingleWordsFrom(segments, k, entry_index) ==
    IF k > Len(segments) THEN <<>>
    ELSE SingleWordEntriesFrom(segments[k], 1, entry_index)
         \o SingleWordsFrom(segments, k + 1, entry_index + Len(segments[k].words))

\* to_srt_single_words(): [entries, ok]; it has nothing to raise on
\* segments that have their 'words'.
to_srt_single_words(segments) ==
    [entries |-> SingleWordsFrom(segments, 1, 1), ok |-> TRUE]

\* Lines 184-195 for the words of one segment from the idx-th on.
\* modified_text[idx] raises IndexError when the text has fewer tokens than
\* the segment has words.
RECURSIVE HighlightEntriesFrom(_, _, _)
HighlightEntriesFrom(segment, idx, entry_index) ==
    IF idx > Len(segment.words) THEN [entries |-> <<>>, ok |-> TRUE]
    ELSE IF idx > Len(segment.text) THEN [entries |-> <<>>, ok |-> FALSE]
    ELSE LET rest == HighlightEntriesFrom(segment, idx + 1, entry_index + 1)
         IN  [ entries |->
                  << [ index |-> entry_index,
                       start |-> format_time(segment.words[idx].start),
                       end |-> EntryEnd(segment, idx),
                       text |-> [tokens |-> segment.text, highlighted |-> idx] ] >>
                  \o rest.entries,
               ok |-> rest.ok ]

\* The loop of line 181 from the k-th segment on.
RECURSIVE HighlightWordFrom(_, _, _)
HighlightWordFrom(segments, k, entry_index) ==
    IF k > Len(segments) THEN [entries |-> <<>>, ok |-> TRUE]
    ELSE LET here == HighlightEntriesFrom(segments[k], 1, entry_index)
             rest == HighlightWordFrom(segments, k + 1,
                                       entry_index + Len(segments[k].words))
         IN  IF here.ok
             THEN [entries |-> here.entries \o rest.entries, ok |-> rest.ok]
             ELSE [entries |-> <<>>, ok |-> FALSE]

\* to_srt_highlight_word(): [entries, ok], no entries when it raised.
to_srt_highlight_word(segments) ==
    LET r == HighlightWordFrom(segments, 1, 1)
    IN  IF r.ok THEN r ELSE [entries |-> <<>>, ok |-> FALSE]

\* Lines 88-93: the words of all segments, in order.
RECURSIVE extract_word_segments(_)
extract_word_segments(segments) ==
    IF segments = <<>> THEN <<>>
    ELSE Head(segments).words \o extract_word_segments(Tail(segments))

\* Lines 113-123: the segment made of one chunk of words.
SegmentOfChunk(chunk) ==
    [ start |-> chunk[1].start,
      end |-> chunk[Len(chunk)].end,
      text |-> [i \in DOMAIN chunk |-> chunk[i].word],
      words |-> chunk ]

\* A variant whose chunks take one word more, so that consecutive chunks
\* share a word.
ChunkOneMore(word_segments, i, words_per_segment) ==
    SubSeq(word_segments, i,
           IF i + words_per_segment < Len(word_segments)
           THEN i + words_per_segment ELSE Len(word_segments))

\* word_segments[i: i + words_per_segment], i counted from 1 here.
Chunk(word_segments, i, words_per_segment) ==
    SubSeq(word_segments, i,
           IF i + words_per_segment - 1 < Len(word_segments)
           THEN i + words_per_segment - 1 ELSE Len(word_segments))

\* The loop of line 109 from position i on.
RECURSIVE AdjustFrom(_, _, _)
AdjustFrom(word_segments, i, words_per_segment) ==
    IF i > Len(word_segments) THEN <<>>
    ELSE <<SegmentOfChunk(Chunk(word_segments, i, words_per_segment))>>
         \o AdjustFrom(word_segments, i + words_per_segment, words_per_segment)

\* adjust_word_per_segment(n), n >= 1: the new value of self.segments, which
\* is also what is returned.
adjust_word_per_segment(segments, words_per_segment) ==
    AdjustFrom(extract_word_segments(segments), 1, words_per_segment)

\* Lines 244-250: one entry per segment.
PlainEntries(segments) ==
    [ k \in DOMAIN segments |->
        [ index |-> k,
          start |-> format_time(segments[k].start),
          end |-> format_time(segments[k].end),
          text |-> [tokens |-> segments[k].text, highlighted |-> 0] ] ]

\* A variant that renders the re-chunked segments and keeps the old ones.
ToSrtPlainTextTransient(segments, words_per_segment) ==
    LET adjusted_segments == IF words_per_segment # 0
                             THEN adjust_word_per_segment(segments, words_per_segment)
                             ELSE segments
    IN  [segments |-> segments, entries |-> PlainEntries(adjusted_segments)]

\* to_srt_plain_text(words_per_segment): [segments, entries], segments being
\* self.segments after the call; words_per_segment 0 stands for None.
to_srt_plain_text(segments, words_per_segment) ==
    LET adjusted_segments == IF words_per_segment # 0
                             THEN adjust_word_per_segment(segments, words_per_segment)
                             ELSE segments
    IN  [segments |-> adjusted_segments, entries |-> PlainEntries(adjusted_segments)]

----------------------------------------------------------------------------
(* The converter run: one SRTConverter, rendered and re-chunked in any
   order, any number of times. *)

\* Most segments the converter is made of, most words in all of them
\* together, largest words_per_segment.
MaxCvSegs == 2
MaxCvWords == 4
MaxChunk == 3

CvWordTexts == <<"a", "b", "c", "d", "e", "f">>
\* How a transcription segment relates to its words: span and text exactly
\* those of the words; a span that ends after the last word; a text of fewer
\* tokens than words.
CvKinds == {"tight", "slack", "terse"}

\* The j-th word of the converter: 0.25 s long, 0.125 s before the next.
CvWord(j) == [word |-> CvWordTexts[j], start |-> 3 * (j - 1), end |-> 3 * (j - 1) + 2]

CvDicts(kinds, lens) ==
    [ k \in DOMAIN lens |->
        LET before == Sum(lens, k - 1)
            words == [i \in 1..lens[k] |-> CvWord(before + i)]
        IN  [ start |-> 3 * before,
              end |-> IF lens[k] = 0 THEN 3 * before
                      ELSE words[lens[k]].end + (IF kinds[k] = "slack" THEN 1 ELSE 0),
              text |-> IF kinds[k] = "terse" THEN <<"x">>
                       ELSE [i \in 1..lens[k] |-> words[i].word],
              words |-> words ] ]

CvIdle ==
    /\ cv_segs = <<>>
    /\ cv_orig = <<>>
    /\ cv_entries = <<>>
    /\ cv_n = 0
    /\ cv_last = "idle"

CvInit ==
    \E n \in 0..MaxCvSegs, m \in 0..MaxCvWords :
    \E lens \in [1..n -> 0..MaxCvWords], kinds \in [1..n -> CvKinds] :
        /\ Sum(lens, n) = m
        /\ cv_segs = CvDicts(kinds, lens)
        /\ cv_orig = cv_segs
        /\ cv_entries = <<>>
        /\ cv_n = 0
        /\ cv_last = "new"

\* converter.to_srt_single_words()
CvSingleWords ==
    /\ cv_last # "idle"
    /\ cv_entries' = to_srt_single_words(cv_segs).entries
    /\ cv_last' = "single"
    /\ UNCHANGED <<cv_segs, cv_orig, cv_n>>
    /\ UNCHANGED <<gc_vars, tc_vars, sub_vars, rp_vars, st_vars, cw_vars>>

\* converter.to_srt_highlight_word()
CvHighlightWord ==
    /\ cv_last # "idle"
    /\ LET r == to_srt_highlight_word(cv_segs)
       IN  /\ cv_entries' = r.entries
           /\ cv_last' = IF r.ok THEN "highlight" ELSE "raised"
    /\ UNCHANGED <<cv_segs, cv_orig, cv_n>>
    /\ UNCHANGED <<gc_vars, tc_vars, sub_vars, rp_vars, st_vars, cw_vars>>

\* converter.adjust_word_per_segment(n)
CvAdjust ==
    /\ cv_last # "idle"
    /\ \E n \in 1..MaxChunk :
          /\ cv_segs' = adjust_word_per_segment(cv_segs, n)
          /\ cv_n' = n
    /\ cv_entries' = <<>>
    /\ cv_last' = "adjust"
    /\ UNCHANGED cv_orig
    /\ UNCHANGED <<gc_vars, tc_vars, sub_vars, rp_vars, st_vars, cw_vars>>

\* converter.to_srt_plain_text(n), and converter.to_srt_plain_text() for n = 0
CvPlainText ==
    /\ cv_last # "idle"
    /\ \E n \in 0..MaxChunk :
          /\ cv_last' = IF n # 0 THEN "plain_n" ELSE "plain"
          /\ LET r == to_srt_plain_text(cv_segs, n)
             IN  /\ cv_segs' = r.segments
                 /\ cv_entries' = r.entries
                 /\ cv_n' = IF n # 0 THEN n ELSE cv_n
    /\ UNCHANGED cv_orig
    /\ UNCHANGED <<gc_vars, tc_vars, sub_vars, rp_vars, st_vars, cw_vars>>

CvNext == CvSingleWords \/ CvHighlightWord \/ CvAdjust \/ CvPlainText

----------------------------------------------------------------------------
(* SRTWriter.py: SRTConverter.create_segments_from_words *)

(* The words are dictionaries as correct_missing_times takes them, [word,
   start, end, has_start, has_end]; the chunks are slices of the caller's
   list and hold the caller's dictionaries, so what fill_missing_times fills
   is filled in the caller's list. *)

\* Lines 270-280: the rule of correct_missing_times, on the words of one
\* chunk.
fill_missing_times(words) == RepairWordsFrom(words, 1)

\* The loop of line 282 from position i on: [words, segments], words being
\* the caller's list as the loop leaves it.
RECURSIVE CreateFrom(_, _, _)
CreateFrom(word_segments, i, words_per_segment) ==
    IF i > Len(word_segments) THEN [words |-> word_segments, segments |-> <<>>]
    ELSE LET chunk == fill_missing_times(Chunk(word_segments, i, words_per_segment))
             last == i + Len(chunk) - 1
             filled == [j \in DOMAIN word_segments |->
                           IF i <= j /\ j <= last THEN chunk[j - i + 1]
                           ELSE word_segments[j]]
             rest == CreateFrom(filled, i + words_per_segment, words_per_segment)
         IN  [ words |-> rest.words,
               segments |-> <<SegmentOfChunk(chunk)>> \o rest.segments ]

\* create_segments_from_words(word_segments, n), n >= 1.
create_segments_from_words(word_segments, words_per_segment) ==
    CreateFrom(word_segments, 1, words_per_segment)

----------------------------------------------------------------------------
(* The chunking run: one flat list of word dictionaries handed to
   create_segments_from_words. *)

\* Most words in the flat list.
MaxFlatWords == 4

\* The j-th word, with or without its 'start' and its 'end'.
CwWord(j, has) ==
    [ word |-> CvWordTexts[j],
      has_start |-> has[1], start |-> IF has[1] THEN 3 * (j - 1) ELSE 0,
      has_end |-> has[2], end |-> IF has[2] THEN 3 * (j - 1) + 2 ELSE 0 ]

CwIdle ==
    /\ cw_words = <<>>
    /\ cw_pre = <<>>
    /\ cw_out = <<>>
    /\ cw_n = 0
    /\ cw_pc = "idle"

CwInit ==
    \E m \in 0..MaxFlatWords :
    \E has \in [1..m -> BOOLEAN \X BOOLEAN] :
        /\ cw_words = [j \in 1..m |-> CwWord(j, has[j])]
        /\ cw_pre = <<>>
        /\ cw_out = <<>>
        /\ cw_n = 0
        /\ cw_pc = "new"

\* SRTConverter.create_segments_from_words(words, n)
CwCreate ==
    /\ cw_pc = "new"
    /\ \E n \in 1..MaxChunk :
          LET r == create_segments_from_words(cw_words, n)
          IN  /\ cw_words' = r.words
              /\ cw_out' = r.segments
              /\ cw_n' = n
    /\ cw_pre' = cw_words
    /\ cw_pc' = "made"
    /\ UNCHANGED <<gc_vars, tc_vars, sub_vars, rp_vars, st_vars, cv_vars>>

CwNext == CwCreate

----------------------------------------------------------------------------
(* Specifications *)

\* GcInit with every other component out of the run.
InitGap == GcInit /\ TcIdle /\ SubIdle /\ RpIdle /\ StIdle /\ CvIdle /\ CwIdle
SpecGap == InitGap /\ [][GcNext]_vars

\* SubInit with every other component out of the run.
InitSub == SubInit /\ GcIdle /\ TcIdle /\ RpIdle /\ StIdle /\ CvIdle /\ CwIdle
SpecSub == InitSub /\ [][SubNext]_vars

\* RpInit with every other component out of the run.
InitRepair == RpInit /\ GcIdle /\ TcIdle /\ SubIdle /\ StIdle /\ CvIdle /\ CwIdle
SpecRepair == InitRepair /\ [][RpNext]_vars

\* TcInit with every other component out of the run.
InitITT == TcInit /\ GcIdle /\ SubIdle /\ RpIdle /\ StIdle /\ CvIdle /\ CwIdle
SpecITT == InitITT /\ [][TcNext]_vars

\* StInit with every other component out of the run.
InitStitch == StInit /\ GcIdle /\ TcIdle /\ SubIdle /\ RpIdle /\ CvIdle /\ CwIdle
SpecStitch == InitStitch /\ [][StNext]_vars

\* A converter that is rendered and re-chunked, or a call of the static
\* create_segments_from_words; every other component out of the run.
InitSrt ==
    /\ (CvInit /\ CwIdle) \/ (CwInit /\ CvIdle)
    /\ GcIdle /\ TcIdle /\ SubIdle /\ RpIdle /\ StIdle
SpecSrt == InitSrt /\ [][CvNext \/ CwNext]_vars

----------------------------------------------------------------------------
(* Properties of the gap closer *)

\* The timecode the specification prescribes for t at frameRate (section 4.4):
\* every component by its own floor formula.
SpecTimecode(t, frameRate) ==
    [ hours   |-> t \div (3600 * TicksPerSecond),
      minutes |-> (t % (3600 * TicksPerSecond)) \div (60 * TicksPerSecond),
      seconds |-> (t % (60 * TicksPerSecond)) \div TicksPerSecond,
      frames  |-> ((t % TicksPerSecond) * frameRate) \div TicksPerSecond ]

SameTimecode(a, b) ==
    /\ a.hours = b.hours
    /\ a.minutes = b.minutes
    /\ a.seconds = b.seconds
    /\ a.frames = b.frames

SameSecond(a, b) ==
    /\ a.hours = b.hours
    /\ a.minutes = b.minutes
    /\ a.seconds = b.seconds

IttOf(h, ref) == IF ref = 0 THEN NoITT ELSE h.itt[ref]

GcLen == Len(GcInput)
\* The i-th cue as it was passed in, and its timecodes.
GcIn(i) == gc_pre.seg[GcInput[i]]
GcInIttStart(i) == IttOf(gc_pre, GcIn(i).itt_start)
GcInIttEnd(i) == IttOf(gc_pre, GcIn(i).itt_end)
\* The i-th cue of the returned list, and its timecodes.
GcOut(i) == gc_heap.seg[gc_lists[gc_ret][i]]
GcOutIttStart(i) == IttOf(gc_heap, GcOut(i).itt_start)
GcOutIttEnd(i) == IttOf(gc_heap, GcOut(i).itt_end)
\* The i-th cue between the two loops of the call.
GcBridged ==
    LET w == WorkingCopy(gc_pre, GcInput)
    IN  [heap |-> Bridging(w.heap, w.list, 2, gc_gap).heap, list |-> w.list]
GcMid(i) == GcBridged.heap.seg[GcBridged.list[i]]

\* The input gap of the pair (i-1, i) is below the threshold of the call.
GcBelow(i) == GcIn(i).start - GcIn(i - 1).end < gc_gap

\* C1: after closeGapBetweenListOfSegments, every adjacent pair whose input
\* gap was below the threshold shares one boundary: previous.end equals
\* current.start and previous.itt_end equals current.itt_start field by
\* field.  The boundary is the input current.start (with its timecode) when
\* the two input timecodes agree in hour, minute and second, and otherwise
\* the midpoint of current.start and previous.end with the midpoint's timecode.
C1_SharedBoundary ==
    gc_pc = "closed" =>
        \A i \in 2..GcLen :
            GcBelow(i) =>
                LET same == SameSecond(GcInIttEnd(i - 1), GcInIttStart(i))
                    b == IF same THEN GcIn(i).start
                         ELSE (GcIn(i).start + GcIn(i - 1).end) \div 2
                IN  /\ GcOut(i - 1).end = b
                    /\ GcOut(i).start = b
                    /\ SameTimecode(GcOutIttEnd(i - 1), GcOutIttStart(i))
                    /\ same => SameTimecode(GcOutIttStart(i), GcInIttStart(i))
                    /\ ~same => SameTimecode(GcOutIttStart(i),
                                             SpecTimecode(b, GcIn(i).frame_rate))

\* A call that snapped one pair within a second (the frames differed) and made
\* another pair meet at the midpoint.
C1_Witness ==
    /\ gc_pc = "closed"
    /\ \E i \in 2..GcLen :
          /\ GcBelow(i)
          /\ SameSecond(GcInIttEnd(i - 1), GcInIttStart(i))
          /\ GcInIttEnd(i - 1).frames # GcInIttStart(i).frames
    /\ \E j \in 2..GcLen :
          /\ GcBelow(j)
          /\ ~SameSecond(GcInIttEnd(j - 1), GcInIttStart(j))

\* The pair (i-1, i) has, in the returned list, the boundary values it had
\* in the input.
GcPairUntouched(i) ==
    /\ GcOut(i - 1).end = GcIn(i - 1).end
    /\ GcOut(i).start = GcIn(i).start
    /\ SameTimecode(GcOutIttEnd(i - 1), GcInIttEnd(i - 1))
    /\ SameTimecode(GcOutIttStart(i), GcInIttStart(i))

\* C2 as stated: every adjacent pair whose input gap is at least the
\* threshold is returned untouched, whatever the other cues are.
C2_Original ==
    gc_pc = "closed" =>
        \A i \in 2..GcLen : ~GcBelow(i) => GcPairUntouched(i)

\* C2, amended: every adjacent pair whose input gap is at least the
\* threshold, and neither cue of which has start == end after the bridging
\* loop, is returned untouched.
C2_UntouchedUnlessZeroWidth ==
    gc_pc = "closed" =>
        \A i \in 2..GcLen :
            ( /\ ~GcBelow(i)
              /\ GcMid(i - 1).start # GcMid(i - 1).end
              /\ GcMid(i).start # GcMid(i).end ) => GcPairUntouched(i)

\* A call on timed cues that left one wide-enough pair of non-empty cues
\* alone while bridging another pair.
C2_Witness ==
    /\ gc_pc = "closed"
    /\ \E i \in 2..GcLen :
          /\ ~GcBelow(i)
          /\ GcMid(i - 1).start # GcMid(i - 1).end
          /\ GcMid(i).start # GcMid(i).end
          /\ GcIn(i).itt_start # 0
    /\ \E j \in 2..GcLen : GcBelow(j) /\ GcIn(j).start # GcIn(j - 1).end

\* C3 as stated: every cue with start == end after the bridging loop and with
\* a cue on both sides is returned spanning [previous.end, next.start], times
\* and timecodes.
C3_ZeroWidthSpansNeighbours ==
    gc_pc = "closed" =>
        \A i \in 2..(GcLen - 1) :
            GcMid(i).start = GcMid(i).end =>
                /\ GcOut(i).start = GcOut(i - 1).end
                /\ GcOut(i).end = GcOut(i + 1).start
                /\ SameTimecode(GcOutIttStart(i), GcOutIttEnd(i - 1))
                /\ SameTimecode(GcOutIttEnd(i), GcOutIttStart(i + 1))

\* Every object the caller passed in holds what it held before the call.
GcInputUntouched ==
    /\ \A r \in DOMAIN gc_pre.seg : gc_heap.seg[r] = gc_pre.seg[r]
    /\ \A r \in DOMAIN gc_pre.itt : gc_heap.itt[r] = gc_pre.itt[r]

\* The returned list is another list object, and no Segments or ITTTime
\* object of it is one of the caller's.
GcNewSequence ==
    /\ gc_ret # 1
    /\ RangeOf(gc_lists[gc_ret]) \cap RangeOf(GcInput) = {}
    /\ \A i \in 1..GcLen :
          {GcOut(i).itt_start, GcOut(i).itt_end} \cap DOMAIN gc_pre.itt = {}

\* C8 as stated: for every input length the input is untouched and the
\* returned list is a new one that shares no segment with the input.
C8_Original ==
    gc_pc = "closed" => GcInputUntouched /\ GcNewSequence

\* C8, amended: the input is untouched for every length; for two or more
\* cues the returned list is a deep copy sharing no object with the input,
\* and for zero or one cue the returned list is the input list itself.
C8_CopyFromTwoCuesOn ==
    gc_pc = "closed" =>
        /\ GcInputUntouched
        /\ GcLen >= 2 => GcNewSequence
        /\ GcLen <= 1 => gc_ret = 1

\* A call on two or more cues that changed a cue of the returned list.
C8_Witness ==
    /\ gc_pc = "closed"
    /\ GcLen >= 2
    /\ \E i \in 1..GcLen : GcOut(i).end # GcIn(i).end

----------------------------------------------------------------------------
(* Properties of ITTTime *)

\* C6: for t >= 0 and frameRate >= 1, ITTTime(t, frameRate) has hours =
\* floor(t/3600), minutes = floor((t mod 3600)/60), seconds = floor(t mod 60)
\* and frames = floor((t mod 1) * frameRate), truncated and never rounded up;
\* so 0 <= minutes < 60, 0 <= seconds < 60, 0 <= frames < frameRate and
\* hours*3600 + minutes*60 + seconds = floor(t).
C6_TimecodeByFloors ==
    tc_pc = "made" =>
        LET t == tc_in.t
            f == tc_in.frame_rate
            o == tc_out
            frac == t % TicksPerSecond
        IN  /\ SameTimecode(o, SpecTimecode(t, f))
            /\ o.frames * TicksPerSecond <= frac * f
            /\ frac * f < (o.frames + 1) * TicksPerSecond
            /\ 0 <= o.minutes /\ o.minutes < 60
            /\ 0 <= o.seconds /\ o.seconds < 60
            /\ 0 <= o.frames /\ o.frames < f
            /\ o.hours * 3600 + o.minutes * 60 + o.seconds = t \div TicksPerSecond

\* A time past the first hour, with minutes, whose frame was cut down: the
\* exact frame position is not a whole number and lies in the upper half.
C6_Witness ==
    /\ tc_pc = "made"
    /\ tc_out.hours >= 1
    /\ tc_out.minutes >= 1
    /\ 2 * (((tc_in.t % TicksPerSecond) * tc_in.frame_rate) % TicksPerSecond)
           > TicksPerSecond

----------------------------------------------------------------------------
(* Properties of the expansion *)

\* The source segment k before the call, and the position in the returned
\* list just before the segments made of it.
SubSrc(k) == sub_pre.seg[sub_in[k]]
SubNow(k) == sub_heap.seg[sub_in[k]]
SubBase(k) == Sum([j \in DOMAIN sub_in |-> Len(SubSrc(j).words)], k - 1)
SubNew(k, i) == sub_heap.seg[sub_out[SubBase(k) + i]]

\* What C7 says of the returned list apart from the highlight flags: one
\* segment per word, in the order of the segments and of their words, with
\* the word's start and end, the parent's text and all the parent's words;
\* the source words keep their highlight flags.
SubShape ==
    /\ Len(sub_out) = Sum([j \in DOMAIN sub_in |-> Len(SubSrc(j).words)], Len(sub_in))
    /\ \A k \in DOMAIN sub_in :
          /\ \A j \in DOMAIN SubSrc(k).words :
                SubNow(k).words[j].highlighted = SubSrc(k).words[j].highlighted
          /\ \A i \in DOMAIN SubSrc(k).words :
                /\ SubNew(k, i).start = SubSrc(k).words[i].start
                /\ SubNew(k, i).end = SubSrc(k).words[i].end
                /\ SubNew(k, i).text = SubSrc(k).text
                /\ Len(SubNew(k, i).words) = Len(SubSrc(k).words)
                /\ \A j \in DOMAIN SubSrc(k).words :
                      /\ SubNew(k, i).words[j].text = SubSrc(k).words[j].text
                      /\ SubNew(k, i).words[j].start = SubSrc(k).words[j].start
                      /\ SubNew(k, i).words[j].end = SubSrc(k).words[j].end

\* C7 as stated: in the i-th segment made of a source segment exactly one
\* word copy is highlighted, the i-th.
C7_Original ==
    sub_pc = "flat" =>
        /\ SubShape
        /\ \A k \in DOMAIN sub_in : \A i, j \in DOMAIN SubSrc(k).words :
              SubNew(k, i).words[j].highlighted = (j = i)

\* C7, amended: in the i-th segment made of a source segment the i-th word
\* copy is highlighted and every other copy has the flag of its source word
\* (so exactly one is highlighted when no source word is); the rest of C7
\* as stated.
C7_HighlightAdded ==
    sub_pc = "flat" =>
        /\ SubShape
        /\ \A k \in DOMAIN sub_in : \A i, j \in DOMAIN SubSrc(k).words :
              SubNew(k, i).words[j].highlighted
                  = ((j = i) \/ SubSrc(k).words[j].highlighted)

\* Two source segments with words expanded, one of at least two words none
\* of which was highlighted.
C7_Witness ==
    /\ sub_pc = "flat"
    /\ Len(sub_in) >= 2
    /\ \A k \in DOMAIN sub_in : Len(SubSrc(k).words) >= 1
    /\ \E k \in DOMAIN sub_in :
          /\ Len(SubSrc(k).words) >= 2
          /\ \A j \in DOMAIN SubSrc(k).words : ~SubSrc(k).words[j].highlighted

----------------------------------------------------------------------------
(* Properties of the repair *)

RpComplete(segs) ==
    \A k \in DOMAIN segs : \A i \in DOMAIN segs[k].words :
        segs[k].words[i].has_start /\ segs[k].words[i].has_end

RpNothingPresent(segs) ==
    \A k \in DOMAIN segs : \A i \in DOMAIN segs[k].words :
        ~segs[k].words[i].has_start /\ ~segs[k].words[i].has_end

\* The rule of C5 for the i-th word of a segment, was its words before the
\* call and now its words after it.  "The previous word's end" is the end the
\* previous word holds when the i-th word is repaired, which is the end it
\* holds after the call; the next word is then still as it was.
RpRule(was, now, i) ==
    LET n == Len(was)
        nextStart == i < n /\ was[i + 1].has_start
    IN  /\ was[i].has_start => now[i].start = was[i].start
        /\ was[i].has_end => now[i].end = was[i].end
        /\ ~was[i].has_start =>
              now[i].start = IF i > 1 THEN now[i - 1].end
                             ELSE IF nextStart THEN was[i + 1].start
                             ELSE 0
        /\ ~was[i].has_end =>
              now[i].end = IF nextStart THEN was[i + 1].start
                           ELSE IF i > 1 THEN now[i - 1].end
                           ELSE now[i].start

\* C5: after correct_missing_times every word has start and end; no segment
\* or word is added, removed or reordered; a timestamp that was present is
\* unchanged; a missing start is the previous word's end, else the next
\* word's start, else 0; a missing end is the next word's start, else the
\* previous word's end, else the word's own start; when every word lacks
\* both, all become 0; and input with no missing field is left as it is.
C5_RepairFillsByNeighbours ==
    rp_pc \in {"once", "twice"} =>
        /\ RpComplete(rp_segs)
        /\ Len(rp_segs) = Len(rp_pre)
        /\ \A k \in DOMAIN rp_pre :
              /\ rp_segs[k].text = rp_pre[k].text
              /\ rp_segs[k].start = rp_pre[k].start
              /\ rp_segs[k].end = rp_pre[k].end
              /\ Len(rp_segs[k].words) = Len(rp_pre[k].words)
              /\ \A i \in DOMAIN rp_pre[k].words :
                    /\ rp_segs[k].words[i].word = rp_pre[k].words[i].word
                    /\ RpRule(rp_pre[k].words, rp_segs[k].words, i)
        /\ RpNothingPresent(rp_pre) =>
              \A k \in DOMAIN rp_segs : \A i \in DOMAIN rp_segs[k].words :
                  rp_segs[k].words[i].start = 0 /\ rp_segs[k].words[i].end = 0
        /\ RpComplete(rp_pre) => rp_segs = rp_pre

\* A repair of two segments in which a word between two others lacked both
\* timestamps while its neighbours had theirs.
C5_Witness ==
    /\ rp_pc = "once"
    /\ Len(rp_pre) >= 2
    /\ \E k \in DOMAIN rp_pre : \E i \in DOMAIN rp_pre[k].words :
          /\ i > 1 /\ i < Len(rp_pre[k].words)
          /\ ~rp_pre[k].words[i].has_start /\ ~rp_pre[k].words[i].has_end
          /\ rp_pre[k].words[i - 1].has_end /\ rp_pre[k].words[i + 1].has_start
          /\ rp_pre[k].words[i - 1].end # rp_pre[k].words[i + 1].start

----------------------------------------------------------------------------
(* Properties of the stitcher *)

\* The sum of the declared durations of the non-empty arrays before the
\* k-th that have a declared duration.
StElapsed(arrays, at, k) ==
    Sum([j \in DOMAIN arrays |->
            IF arrays[j] # <<>> /\ j <= Len(at) THEN at[j] ELSE 0], k - 1)

\* A segment dictionary with offset added to its start and end and to the
\* start and end of each of its words.
StShifted(segment, offset) ==
    [segment EXCEPT !.start = @ + offset,
                    !.end = @ + offset,
                    !.words = [i \in DOMAIN @ |->
                                  [@[i] EXCEPT !.start = @ + offset,
                                               !.end = @ + offset]]]

\* The dictionaries of the arrays in placement order: array by array, each
\* in its own order.
RECURSIVE StPlacementFrom(_, _)
StPlacementFrom(arrays, k) ==
    IF k > Len(arrays) THEN <<>>
    ELSE [i \in DOMAIN arrays[k] |-> <<k, i>>] \o StPlacementFrom(arrays, k + 1)

StReturned == st_pc \in {"once", "twice"}
StAllDeclared == st_lengths.given /\ Len(st_lengths.at) >= Len(st_pre)

\* C4: with a duration for every array, a call that returns has added to
\* every segment and word of array k the one offset elapsed_k minus the
\* start of the array's first segment, elapsed_k being the sum of the
\* durations of the non-empty arrays before k: the first segment of array k
\* starts at elapsed_k and the spacings in the array are as before; the
\* returned list holds the segments of the non-empty arrays in placement
\* order.
C4_ShiftedByElapsed ==
    (StReturned /\ StAllDeclared) =>
        /\ Len(st_arrays) = Len(st_pre)
        /\ \A k \in DOMAIN st_pre :
              LET elapsed == StElapsed(st_pre, st_lengths.at, k)
              IN  /\ Len(st_arrays[k]) = Len(st_pre[k])
                  /\ st_pre[k] # <<>> =>
                        /\ st_arrays[k][1].start = elapsed
                        /\ \A i \in DOMAIN st_pre[k] :
                              st_arrays[k][i] =
                                 StShifted(st_pre[k][i], elapsed - st_pre[k][1].start)
                        /\ \A i, j \in DOMAIN st_pre[k] :
                              st_arrays[k][j].start - st_arrays[k][i].end
                                 = st_pre[k][j].start - st_pre[k][i].end
        /\ st_out = StPlacementFrom(st_pre, 1)
        /\ \A j \in DOMAIN st_out : st_pre[st_out[j][1]] # <<>>

\* A first call with all durations declared on a non-empty array, an empty
\* one and a non-empty one whose first segment did not start at 0.
C4_Witness ==
    /\ st_pc = "once"
    /\ StAllDeclared
    /\ \E j, k, l \in DOMAIN st_orig :
          /\ j < k /\ k < l
          /\ st_orig[j] # <<>> /\ st_orig[k] = <<>> /\ st_orig[l] # <<>>
          /\ st_orig[l][1].start # 0
          /\ st_arrays[l][1].start = st_lengths.at[j]

\* C9 as stated: after a call that returns, the caller's arrays hold what
\* they held before it, and a second call returns what the first returned.
C9_Original ==
    StReturned =>
        /\ st_arrays = st_pre
        /\ st_pc = "twice" => st_out = st_prevout

\* C9: the list returned is a new list of the caller's own dictionaries in
\* placement order; the call has added array k's offset to the start and end
\* of every segment and word of the caller's arrays, so the arrays differ
\* from what the caller built wherever the offset is not 0; a second call on
\* the same arrays finds every offset 0, changes nothing and returns the same
\* list.
C9_ShiftedInPlace ==
    StReturned =>
        /\ st_out = StPlacementFrom(st_pre, 1)
        /\ \A k \in DOMAIN st_pre : \A i \in DOMAIN st_pre[k] :
              st_arrays[k][i] =
                 StShifted(st_pre[k][i],
                           StElapsed(st_pre, st_lengths.at, k) - st_pre[k][1].start)
        /\ \A k \in DOMAIN st_orig : \A i \in DOMAIN st_orig[k] :
              st_arrays[k][i] =
                 StShifted(st_orig[k][i],
                           StElapsed(st_orig, st_lengths.at, k) - st_orig[k][1].start)
        /\ st_pc = "twice" => (st_arrays = st_pre /\ st_out = st_prevout)

\* A second call on arrays of which the first call moved a segment that has
\* words, with two or more segments returned.
C9_Witness ==
    /\ st_pc = "twice"
    /\ Len(st_out) >= 2
    /\ \E k \in DOMAIN st_orig : \E i \in DOMAIN st_orig[k] :
          /\ st_orig[k][i].words # <<>>
          /\ st_arrays[k][i].words[1].start # st_orig[k][i].words[1].start

\* C10: when array k has no declared duration, the next non-empty array's
\* first segment starts at the end of the last segment of array k.
C10_ElapsedFromLastEnd ==
    st_pc = "once" =>
        \A k, l \in DOMAIN st_arrays :
            ( /\ k < l
              /\ k > Len(st_lengths.at)
              /\ st_arrays[k] # <<>> /\ st_arrays[l] # <<>>
              /\ \A j \in (k + 1)..(l - 1) : st_arrays[j] = <<>> )
            => st_arrays[l][1].start = st_arrays[k][Len(st_arrays[k])].end

\* The times a segment dictionary holds: its own and its words'.
StTimesOf(segment) ==
    {segment.start, segment.end}
    \cup {segment.words[i].start : i \in DOMAIN segment.words}
    \cup {segment.words[i].end : i \in DOMAIN segment.words}

StTimesOfArray(array) == UNION {StTimesOf(array[i]) : i \in DOMAIN array}

\* The declared duration of the k-th array is accurate: the array's first
\* segment starts at 0 or later and every time of the array lies between
\* that start and the duration.
StAccurate(arrays, at, k) ==
    arrays[k] # <<>> =>
        /\ arrays[k][1].start >= 0
        /\ \A t \in StTimesOfArray(arrays[k]) :
              arrays[k][1].start <= t /\ t <= at[k]

\* C11: with an accurate duration declared for every array, every stitched
\* time of array k lies in [elapsed_k, elapsed_k + d_k], no time of array k
\* exceeds the first start of a later array, and so the timeline does not go
\* back across an array boundary.
C11_WithinWindow ==
    ( /\ StReturned /\ StAllDeclared
      /\ \A k \in DOMAIN st_orig : StAccurate(st_orig, st_lengths.at, k) )
    => /\ \A k \in DOMAIN st_orig : \A t \in StTimesOfArray(st_arrays[k]) :
             LET elapsed == StElapsed(st_orig, st_lengths.at, k)
             IN  elapsed <= t /\ t <= elapsed + st_lengths.at[k]
       /\ \A k, l \in DOMAIN st_orig :
             (k < l /\ st_arrays[l] # <<>>) =>
                \A t \in StTimesOfArray(st_arrays[k]) : t <= st_arrays[l][1].start

\* A first call on two non-empty arrays with accurate durations, the first
\* of two segments, the second moved by the call.
C11_Witness ==
    /\ st_pc = "once"
    /\ StAllDeclared
    /\ \A k \in DOMAIN st_orig : StAccurate(st_orig, st_lengths.at, k)
    /\ \E k, l \in DOMAIN st_orig :
          /\ k < l
          /\ Len(st_orig[k]) >= 2 /\ st_orig[l] # <<>>
          /\ st_arrays[l] # st_orig[l]
          /\ st_arrays[k][Len(st_arrays[k])].end < st_arrays[l][1].start

----------------------------------------------------------------------------
(* Properties of the SRT renderers and of re-chunking *)

\* The words of the converter's segments in order, as <<segment, position>>.
CvPositions == StPlacementFrom([k \in DOMAIN cv_segs |-> cv_segs[k].words], 1)

CvWordWise == cv_last \in {"single", "highlight"}

\* What C12 says of every entry but for the end of a segment's last word.
CvEntryPerWord ==
    /\ Len(cv_entries) = Len(CvPositions)
    /\ \A j \in DOMAIN cv_entries :
          LET segment == cv_segs[CvPositions[j][1]]
              i == CvPositions[j][2]
          IN  /\ cv_entries[j].index = j
              /\ cv_entries[j].start = format_time(segment.words[i].start)
              /\ i < Len(segment.words) =>
                    cv_entries[j].end = format_time(segment.words[i + 1].start)

\* C12 as stated: the entry of the last word of a segment ends at the end of
\* the segment.
C12_Original ==
    CvWordWise =>
        /\ CvEntryPerWord
        /\ \A j \in DOMAIN cv_entries :
              LET segment == cv_segs[CvPositions[j][1]]
              IN  CvPositions[j][2] = Len(segment.words) =>
                     cv_entries[j].end = format_time(segment.end)

\* C12: to_srt_single_words and to_srt_highlight_word, when they return, give
\* one entry per word, numbered from 1 across the segments, starting at the
\* word's start; the entry of a word that is not the last of its segment
\* ends at the next word's start, the entry of the last word of a segment at
\* that word's own end.
C12_LastWordEndsAtOwnEnd ==
    CvWordWise =>
        /\ CvEntryPerWord
        /\ \A j \in DOMAIN cv_entries :
              LET segment == cv_segs[CvPositions[j][1]]
                  i == CvPositions[j][2]
              IN  i = Len(segment.words) =>
                     cv_entries[j].end = format_time(segment.words[i].end)

\* Single-word entries of a converter of two segments of two words each, the
\* first segment ending after its last word.
C12_Witness ==
    /\ cv_last = "single"
    /\ Len(cv_segs) = 2
    /\ Len(cv_segs[1].words) = 2 /\ Len(cv_segs[2].words) = 2
    /\ cv_segs[1].end > cv_segs[1].words[2].end
    /\ Len(cv_entries) = 4

\* segments is the partition of the flat sequence of words into consecutive
\* groups of n: ceil(len / n) segments, all of n words but the last, which
\* has between 1 and n; each spans from its first word's start to its last
\* word's end and has its words as text; their words in order are flat.
Partitioned(flat, segments, n) ==
    /\ Len(segments) = (Len(flat) + n - 1) \div n
    /\ \A k \in DOMAIN segments :
          LET words == segments[k].words
          IN  /\ 1 <= Len(words) /\ Len(words) <= n
              /\ k < Len(segments) => Len(words) = n
              /\ \A i \in DOMAIN words : words[i] = flat[(k - 1) * n + i]
              /\ segments[k].start = words[1].start
              /\ segments[k].end = words[Len(words)].end
              /\ segments[k].text = [i \in DOMAIN words |-> words[i].word]
    /\ extract_word_segments(segments) = flat

\* C13: adjust_word_per_segment(n) leaves the converter with the partition
\* of its flat word sequence (which is that of the segments it was made of)
\* into groups of n; create_segments_from_words(words, n) returns the
\* partition of the caller's words into groups of n, the words being the
\* caller's own, in their order, with their texts and the timestamps they had.
C13_PartitionInOrder ==
    /\ cv_last = "adjust" =>
          Partitioned(extract_word_segments(cv_orig), cv_segs, cv_n)
    /\ cw_pc = "made" =>
          /\ Partitioned(cw_words, cw_out, cw_n)
          /\ Len(cw_words) = Len(cw_pre)
          /\ \A j \in DOMAIN cw_pre :
                /\ cw_words[j].word = cw_pre[j].word
                /\ cw_pre[j].has_start => cw_words[j].start = cw_pre[j].start
                /\ cw_pre[j].has_end => cw_words[j].end = cw_pre[j].end

\* Four words of two segments re-chunked into groups of three: a full group
\* and a shorter last one.
C13_Witness ==
    /\ cv_last = "adjust"
    /\ cv_n = 3
    /\ Len(cv_orig) = 2
    /\ Len(cv_orig[1].words) = 2 /\ Len(cv_orig[2].words) = 2
    /\ Len(cv_segs) = 2
    /\ Len(cv_segs[1].words) = 3 /\ Len(cv_segs[2].words) = 1

----------------------------------------------------------------------------
(* Properties of the entry points *)

\* C14: initialize_with_normalized_timestamps, given a list of durations,
\* returns and does not raise, also when a word lacks a timestamp.
C14_StitcherNeverRaises ==
    st_lengths.given => st_pc # "raised"

----------------------------------------------------------------------------
(* Properties of to_itt_string *)

SubRendered == sub_heap.seg[sub_str.r]

\* C15: to_itt_string on a segment whose itt_start or itt_end is None, as
\* that of every segment for which no frame rate was set, raises and gives
\* no string; on a segment of a list to which updateFrameRateForSegments has
\* been applied with a frame rate of 1 or more it returns the string whose
\* begin and end are the timecodes of the segment's start and end and whose
\* words are the segment's words.
C15_RaisesUntilTimed ==
    sub_str.r # 0 =>
        /\ (SubRendered.itt_start = 0 \/ SubRendered.itt_end = 0) =>
              sub_str = [NoString EXCEPT !.r = sub_str.r]
        /\ (sub_pc \in {"new", "flat"} /\ SubRendered.frame_rate = 0) => ~sub_str.ok
        /\ (sub_pc = "timed" /\ SubRendered.frame_rate >= 1) =>
              /\ sub_str.ok
              /\ sub_str.begin = ITTTimeStr(ITTTime(SubRendered.start, SubRendered.frame_rate))
              /\ sub_str.end = ITTTimeStr(ITTTime(SubRendered.end, SubRendered.frame_rate))
              /\ Len(sub_str.words) = Len(SubRendered.words)
              /\ \A i \in DOMAIN sub_str.words :
                    /\ sub_str.words[i].text = SubRendered.words[i].text
                    /\ sub_str.words[i].highlighted = SubRendered.words[i].highlighted

\* A segment of a list of two or more, fresh from generateFlattenedSegments
\* without a frame rate, then given 24 frames per second, and rendered.
C15_Witness ==
    /\ sub_pc = "timed"
    /\ sub_str.ok
    /\ Len(sub_out) >= 2
    /\ sub_pre.seg[1].frame_rate = 0
    /\ SubRendered.frame_rate = 24
    /\ Len(sub_str.words) >= 2
    /\ sub_str.begin # sub_str.end

----------------------------------------------------------------------------
(* Properties of the repair: what a word sees of its left neighbour *)

\* The words i - 1 and i of was, a segment's words before the call, lie in a
\* run of three or more consecutive words that lack both timestamps, so that
\* the i-th is the second or a later word of the run.
RpLaterInRun(was, i) ==
    /\ i > 1
    /\ \E a, b \in DOMAIN was :
          /\ a < i /\ i <= b /\ b - a >= 2
          /\ \A j \in a..b : ~was[j].has_start /\ ~was[j].has_end

RpNextStart(was, i) == i < Len(was) /\ was[i + 1].has_start

\* C16 as stated: the second and each later word of such a run is repaired
\* as if its left neighbour still lacked its end: its start is the next
\* word's start if present, else 0, and its end the next word's start if
\* present, else its own start.
C16_Original ==
    rp_pc = "once" =>
        \A k \in DOMAIN rp_pre : \A i \in DOMAIN rp_pre[k].words :
            RpLaterInRun(rp_pre[k].words, i) =>
                /\ rp_segs[k].words[i].start =
                      IF RpNextStart(rp_pre[k].words, i)
                      THEN rp_pre[k].words[i + 1].start ELSE 0
                /\ rp_segs[k].words[i].end =
                      IF RpNextStart(rp_pre[k].words, i)
                      THEN rp_pre[k].words[i + 1].start
                      ELSE rp_segs[k].words[i].start

\* C16: the second and each later word of such a run is repaired with its
\* left neighbour already repaired: its start is the end just filled in for
\* the left neighbour, and so is its end unless the next word has a start;
\* the value filled in at the head of the run is handed on from word to
\* word.  The right neighbour is seen as it was given.
C16_FilledValuesCascade ==
    rp_pc = "once" =>
        \A k \in DOMAIN rp_pre : \A i \in DOMAIN rp_pre[k].words :
            RpLaterInRun(rp_pre[k].words, i) =>
                /\ rp_segs[k].words[i].start = rp_segs[k].words[i - 1].end
                /\ rp_segs[k].words[i].end =
                      IF RpNextStart(rp_pre[k].words, i)
                      THEN rp_pre[k].words[i + 1].start
                      ELSE rp_segs[k].words[i - 1].end

\* A word with both timestamps followed by three that lack both: the end of
\* the first has reached the last.
C16_Witness ==
    /\ rp_pc = "once"
    /\ \E k \in DOMAIN rp_pre :
          /\ Len(rp_pre[k].words) = 4
          /\ rp_pre[k].words[1].has_start /\ rp_pre[k].words[1].has_end
          /\ RpLaterInRun(rp_pre[k].words, 4)
          /\ rp_segs[k].words[4].start = rp_pre[k].words[1].end
          /\ rp_segs[k].words[4].end = rp_pre[k].words[1].end

----------------------------------------------------------------------------
(* Properties of the gap closer: the timeline that comes back *)

\* The call was given two or more cues with their timecodes computed.
GcTimedInput ==
    /\ gc_pc = "closed"
    /\ GcLen >= 2
    /\ \A i \in 1..GcLen : GcIn(i).itt_start # 0 /\ GcIn(i).itt_end # 0

\* The cues given are ordered and do not overlap.
GcInOrder == \A i \in 2..GcLen : GcIn(i - 1).end <= GcIn(i).start

\* C17: of two or more cues with start < end, ordered and not overlapping,
\* with timecodes at one frame rate, none comes back with itt_start equal to
\* itt_end in hours, minutes, seconds and frames.
C17_NoZeroWidthTimecode ==
    ( /\ GcTimedInput
      /\ GcInOrder
      /\ \A i \in 1..GcLen : GcIn(i).start < GcIn(i).end )
    => \A i \in 1..GcLen : ~SameTimecode(GcOutIttStart(i), GcOutIttEnd(i))

\* C18: if every cue given has start <= end and starts no earlier than the
\* previous cue ends, then every cue returned has start <= end and starts no
\* earlier than the previous cue returned ends, whatever the threshold.
C18_TimelineWellFormed ==
    ( /\ GcTimedInput
      /\ GcInOrder
      /\ \A i \in 1..GcLen : GcIn(i).start <= GcIn(i).end )
    => /\ \A i \in 1..GcLen : GcOut(i).start <= GcOut(i).end
       /\ \A i \in 2..GcLen : GcOut(i - 1).end <= GcOut(i).start

\* Three cues in order, the middle one of zero width, one pair bridged at
\* the midpoint: every boundary was moved and the order is kept.
C18_Witness ==
    /\ GcTimedInput
    /\ GcInOrder
    /\ GcLen = 3
    /\ GcIn(2).start = GcIn(2).end
    /\ GcIn(1).start < GcIn(1).end
    /\ \E i \in 2..GcLen :
          GcBelow(i) /\ ~SameSecond(GcInIttEnd(i - 1), GcInIttStart(i))
    /\ GcOut(2).start < GcOut(2).end

\* C19: if every cue given has itt_start = ITTTime(start, f) and itt_end =
\* ITTTime(end, f) at one frame rate f, every cue returned has them too,
\* field by field.
C19_TimecodesFollowTimes ==
    GcTimedInput =>
        \A i \in 1..GcLen :
            /\ GcOutIttStart(i) = ITTTime(GcOut(i).start, GcOut(i).frame_rate)
            /\ GcOutIttEnd(i) = ITTTime(GcOut(i).end, GcOut(i).frame_rate)

\* A call that snapped a pair within one second whose frames differed and
\* then widened a cue of zero width by borrowing from a neighbour.
C19_Witness ==
    /\ GcTimedInput
    /\ \E i \in 2..GcLen :
          /\ GcBelow(i)
          /\ SameSecond(GcInIttEnd(i - 1), GcInIttStart(i))
          /\ GcInIttEnd(i - 1).frames # GcInIttStart(i).frames
    /\ \E j \in 1..GcLen :
          /\ GcMid(j).start = GcMid(j).end
          /\ GcOut(j).start < GcOut(j).end
          /\ ~SameTimecode(GcOutIttStart(j), GcOutIttEnd(j))

----------------------------------------------------------------------------
(* Properties of re-chunking as converter state *)

\* C20: re-chunking replaces the converter's segments: whatever was called
\* before, the flat word sequence is that of the segments the converter was
\* made of; once a size was given, to adjust_word_per_segment or to
\* to_srt_plain_text, the segments are those of one adjust_word_per_segment
\* with the size given last on the original segments; and to_srt_plain_text
\* renders the segments the converter then has, one entry each.
C20_RechunkingPersists ==
    cv_last # "idle" =>
        /\ extract_word_segments(cv_segs) = extract_word_segments(cv_orig)
        /\ cv_n = 0 => cv_segs = cv_orig
        /\ cv_n # 0 => cv_segs = adjust_word_per_segment(cv_orig, cv_n)
        /\ cv_last \in {"plain", "plain_n"} =>
              /\ Len(cv_entries) = Len(cv_segs)
              /\ \A k \in DOMAIN cv_segs :
                    /\ cv_entries[k].index = k
                    /\ cv_entries[k].start = format_time(cv_segs[k].start)
                    /\ cv_entries[k].end = format_time(cv_segs[k].end)
                    /\ cv_entries[k].text.tokens = cv_segs[k].text

\* to_srt_plain_text() without a size on a converter of two segments of two
\* words that was re-chunked into four segments before.
C20_Witness ==
    /\ cv_last = "plain"
    /\ cv_n = 1
    /\ Len(cv_orig) = 2
    /\ Len(cv_orig[1].words) = 2 /\ Len(cv_orig[2].words) = 2
    /\ Len(cv_segs) = 4
    /\ Len(cv_entries) = 4

====
